---- MODULE Spec2Model ----
(***************************************************************************)
(* gachi_http: bounded-concurrency batch execution of HTTP requests        *)
(* (map, __make_reqs, __exec_req) and the polled thread handle             *)
(* (ThreadExecutor, __threaded, map_threaded).                             *)
(***************************************************************************)
EXTENDS Integers, Sequences, FiniteSets, TLC

\* ------------------------------------------------------------------------
\* Bounds of the model
\* ------------------------------------------------------------------------
MaxReqs == 2          \* longest input list handed to map()
MaxSize == 2          \* largest concurrency size handed to map()
MaxThreadedReqs == 1  \* longest input list handed to map_threaded()
MaxCallerStarts == 1  \* how often the caller itself calls executor.start()
MaxDelivered == 2     \* the count of finished() = True reports stops here
MaxProxyEntries == 2  \* most entries of a proxies dict handed to a builder
MaxTwoReqs == 2       \* longest input list of each of two concurrent calls
MaxTwoSize == 1       \* largest size of each of two concurrent calls

\* ------------------------------------------------------------------------
\* Values
\* ------------------------------------------------------------------------
\* Python's None
None == [kind |-> "None"]

\* Request objects as far as map() looks at them: the url ("" is falsy)
Request(url) == [kind |-> "Request", url |-> url]

URLs == {"", "u1", "u2"}

Descriptors == {None} \cup {Request(u) : u \in URLs}

\* Response(req.url, resp.status, resp.headers, content): content is None
\* unless include_content, text is set exactly when content is
Response(url, content) ==
    [kind |-> "Response", url |-> url, content |-> content,
     text |-> IF content = "None" THEN "None" ELSE "decoded"]

\* the exception object e caught in __exec_req for the request to url
Error(url) == [kind |-> "Error", url |-> url]

\* size argument: negative makes asyncio.Semaphore(size) raise ValueError
Sizes == (-1) .. MaxSize

SeqsUpTo(S, n) == UNION {[1 .. k -> S] : k \in 0 .. n}

VARIABLES
    reqs,               \* map(reqs, ...)
    size,               \* map(..., size, ...)
    include_content,    \* map(..., include_content, ...)
    exception_handler,  \* TRUE iff an exception_handler is given
    success_handler,    \* TRUE iff a success_handler is given
    mapPc,              \* "idle", "called", "running", "returned", "raised"
    sem,                \* value of asyncio.Semaphore(size)
    tasks,              \* one __exec_req task per valid request, in order
    threads,            \* the Thread(target=handler) objects started so far
    mapResult,          \* what map() returned
    executor,           \* the ThreadExecutor: status, data, thread
    workerPc,           \* position of the thread running __threaded
    callerPc,           \* position of the caller in start()/finished()
    callerStarts,       \* number of executor.start() calls by the caller
    startRet,           \* return value of the caller's last start()
    startSeen,          \* executor as the caller's last start() found it
    pollSeen,           \* executor as the caller's last finished() found it
    pollRet,            \* return value of the caller's last finished()
    delivered,          \* finished() = True reports since the last start
    call,               \* a builder call: the function and its arguments
    callerSkip,         \* the caller's own skip_headers list object
    built,              \* what the builder call returned (or that it raised)
    other               \* a second map() call running on another thread

batchVars == <<reqs, size, include_content, exception_handler, success_handler,
               mapPc, sem, tasks, threads, mapResult>>
handleVars == <<executor, workerPc, callerPc, callerStarts, startRet,
                startSeen, pollSeen, pollRet, delivered>>
builderVars == <<call, callerSkip, built>>
otherVars == <<other>>
vars == <<batchVars, handleVars, builderVars, otherVars>>

\* ------------------------------------------------------------------------
\* map(): filtering (lines 364-368)
\* ------------------------------------------------------------------------
\* "if req is None or not req.url: continue" negated
IsValidReq(req) == req # None /\ req.url # ""

RECURSIVE FilterValid(_)
FilterValid(rs) ==
    IF rs = <<>> THEN <<>>
    ELSE IF IsValidReq(Head(rs))
         THEN <<Head(rs)>> \o FilterValid(Tail(rs))
         ELSE FilterValid(Tail(rs))

\* asyncio.ensure_future(__exec_req(sem, sess, req, ...)) for req in reqs
NewTask(req) ==
    [req |-> req, pc |-> "acquire", outcome |-> "pending", result |-> None]

\* results collected back to front instead of in task order
Gather_Reversed(ts) == [i \in 1 .. Len(ts) |-> ts[Len(ts) + 1 - i].result]

\* asyncio.gather(*tasks): results in the order of the tasks
Gather(ts) == [i \in 1 .. Len(ts) |-> ts[i].result]

\* Thread(target=handler, args=[arg]).start(): a running thread; gate says
\* whether the request still held its semaphore slot at that moment
StartThread(ths, i, kind, arg, gate) ==
    Append(ths, [req |-> i, kind |-> kind, arg |-> arg, state |-> "running",
                 gate |-> gate])

\* ------------------------------------------------------------------------
\* map() and __make_reqs()
\* ------------------------------------------------------------------------
\* map entry to the first suspension of __make_reqs: filter, new loop,
\* Semaphore(size) (ValueError when size < 0), one task per valid request
MapSetup ==
    /\ mapPc = "called"
    /\ IF size < 0
       THEN /\ mapPc' = "raised"
            /\ UNCHANGED <<sem, tasks>>
       ELSE /\ mapPc' = "running"
            /\ sem' = size
            /\ tasks' = [i \in 1 .. Len(FilterValid(reqs)) |->
                            NewTask(FilterValid(reqs)[i])]
    /\ UNCHANGED <<reqs, size, include_content, exception_handler,
                   success_handler, threads, mapResult, handleVars,
                   builderVars, otherVars>>

\* resp = await fut; loop.close(); return resp[0]
MapReturn ==
    /\ mapPc = "running"
    /\ \A i \in 1 .. Len(tasks) : tasks[i].pc = "done"
    /\ mapPc' = "returned"
    /\ mapResult' = [kind |-> "list", items |-> Gather(tasks)]
    /\ UNCHANGED <<reqs, size, include_content, exception_handler,
                   success_handler, sem, tasks, threads, handleVars,
                   builderVars, otherVars>>

\* ------------------------------------------------------------------------
\* __exec_req()
\* ------------------------------------------------------------------------
\* the request is issued without waiting for a free slot
Acquire_NoGate(i) ==
    /\ mapPc = "running"
    /\ i \in 1 .. Len(tasks)
    /\ tasks[i].pc = "acquire"
    /\ sem' = sem - 1
    /\ tasks' = [tasks EXCEPT ![i].pc = "request"]
    /\ UNCHANGED <<reqs, size, include_content, exception_handler,
                   success_handler, mapPc, threads, mapResult, handleVars,
                   builderVars, otherVars>>

\* "async with sem": take a slot when one is free, then issue sess.request
Acquire(i) ==
    /\ mapPc = "running"
    /\ i \in 1 .. Len(tasks)
    /\ tasks[i].pc = "acquire"
    /\ sem > 0
    /\ sem' = sem - 1
    /\ tasks' = [tasks EXCEPT ![i].pc = "request"]
    /\ UNCHANGED <<reqs, size, include_content, exception_handler,
                   success_handler, mapPc, threads, mapResult, handleVars,
                   builderVars, otherVars>>

\* lines 311-318 once the body (if wanted) is there: build the Response,
\* start the success handler's thread, return final (still inside the with)
Succeed(i, content) ==
    LET final == Response(tasks[i].req.url, content) IN
    /\ tasks' = [tasks EXCEPT ![i].pc = "exit", ![i].outcome = "ok",
                              ![i].result = final]
    /\ threads' = IF success_handler
                  THEN StartThread(threads, i, "success", final, TRUE)
                  ELSE threads
    /\ UNCHANGED <<sem, mapPc>>

\* no "except": the exception leaves __exec_req, gather hands it to
\* run_until_complete and map raises
Fail_Propagates(i) ==
    /\ sem' = sem + 1
    /\ tasks' = [tasks EXCEPT ![i].pc = "done", ![i].outcome = "error",
                              ![i].result = None]
    /\ mapPc' = "raised"
    /\ UNCHANGED threads

\* the slot taken by a request that fails is never given back
Fail_KeepsSlot(i) ==
    /\ tasks' = [tasks EXCEPT ![i].pc = "done", ![i].outcome = "error",
                              ![i].result = None]
    /\ threads' = IF exception_handler
                  THEN StartThread(threads, i, "failure",
                                   Error(tasks[i].req.url), FALSE)
                  ELSE threads
    /\ UNCHANGED <<sem, mapPc>>

\* "except" placed inside the with: the exception handler is started while
\* the slot is still held
Fail_NotifyInsideWith(i) ==
    /\ sem' = sem + 1
    /\ tasks' = [tasks EXCEPT ![i].pc = "done", ![i].outcome = "error",
                              ![i].result = None]
    /\ threads' = IF exception_handler
                  THEN StartThread(threads, i, "failure",
                                   Error(tasks[i].req.url), TRUE)
                  ELSE threads
    /\ UNCHANGED mapPc

\* the exception is swallowed without starting the exception handler
Fail_NoNotify(i) ==
    /\ sem' = sem + 1
    /\ tasks' = [tasks EXCEPT ![i].pc = "done", ![i].outcome = "error",
                              ![i].result = None]
    /\ UNCHANGED <<threads, mapPc>>

\* an exception inside the with: the slot is released by the with, then
\* "except Exception as e" starts the exception handler's thread; the
\* coroutine returns None
Fail(i) ==
    /\ sem' = sem + 1
    /\ tasks' = [tasks EXCEPT ![i].pc = "done", ![i].outcome = "error",
                              ![i].result = None]
    /\ threads' = IF exception_handler
                  THEN StartThread(threads, i, "failure",
                                   Error(tasks[i].req.url), FALSE)
                  ELSE threads
    /\ UNCHANGED mapPc

\* the exchange completes: resp is there
RequestOk(i) ==
    /\ mapPc = "running"
    /\ i \in 1 .. Len(tasks)
    /\ tasks[i].pc = "request"
    /\ IF include_content
       THEN /\ tasks' = [tasks EXCEPT ![i].pc = "read"]
            /\ UNCHANGED <<sem, threads, mapPc>>
       ELSE Succeed(i, "None")
    /\ UNCHANGED <<reqs, size, include_content, exception_handler,
                   success_handler, mapResult, handleVars,
                   builderVars, otherVars>>

\* the exchange fails: connection error, timeout, protocol error
RequestFail(i) ==
    /\ mapPc = "running"
    /\ i \in 1 .. Len(tasks)
    /\ tasks[i].pc = "request"
    /\ Fail(i)
    /\ UNCHANGED <<reqs, size, include_content, exception_handler,
                   success_handler, mapResult, handleVars,
                   builderVars, otherVars>>

\* content = await resp.read() returns
ReadOk(i) ==
    /\ mapPc = "running"
    /\ i \in 1 .. Len(tasks)
    /\ tasks[i].pc = "read"
    /\ Succeed(i, "bytes")
    /\ UNCHANGED <<reqs, size, include_content, exception_handler,
                   success_handler, mapResult, handleVars,
                   builderVars, otherVars>>

\* content = await resp.read() raises
ReadFail(i) ==
    /\ mapPc = "running"
    /\ i \in 1 .. Len(tasks)
    /\ tasks[i].pc = "read"
    /\ Fail(i)
    /\ UNCHANGED <<reqs, size, include_content, exception_handler,
                   success_handler, mapResult, handleVars,
                   builderVars, otherVars>>

\* the slot is not given back on the way out
ExitWith_KeepsSlot(i) ==
    /\ mapPc = "running"
    /\ i \in 1 .. Len(tasks)
    /\ tasks[i].pc = "exit"
    /\ tasks' = [tasks EXCEPT ![i].pc = "done"]
    /\ UNCHANGED <<reqs, size, include_content, exception_handler,
                   success_handler, mapPc, sem, threads, mapResult, handleVars,
                   builderVars, otherVars>>

\* "finally" in place of "except": the exception handler is started on the
\* way out of a successful request as well
ExitWith_Finally(i) ==
    /\ mapPc = "running"
    /\ i \in 1 .. Len(tasks)
    /\ tasks[i].pc = "exit"
    /\ sem' = sem + 1
    /\ tasks' = [tasks EXCEPT ![i].pc = "done"]
    /\ threads' = IF exception_handler
                  THEN StartThread(threads, i, "failure",
                                   Error(tasks[i].req.url), FALSE)
                  ELSE threads
    /\ UNCHANGED <<reqs, size, include_content, exception_handler,
                   success_handler, mapPc, mapResult, handleVars,
                   builderVars, otherVars>>

\* the handler's thread is joined before the request returns
ExitWith_Join(i) ==
    /\ mapPc = "running"
    /\ i \in 1 .. Len(tasks)
    /\ tasks[i].pc = "exit"
    /\ \A t \in DOMAIN threads :
          threads[t].req = i => threads[t].state # "running"
    /\ sem' = sem + 1
    /\ tasks' = [tasks EXCEPT ![i].pc = "done"]
    /\ UNCHANGED <<reqs, size, include_content, exception_handler,
                   success_handler, mapPc, threads, mapResult, handleVars,
                   builderVars, otherVars>>

\* "return final" leaves the with: the response and then the slot are released
ExitWith(i) ==
    /\ mapPc = "running"
    /\ i \in 1 .. Len(tasks)
    /\ tasks[i].pc = "exit"
    /\ sem' = sem + 1
    /\ tasks' = [tasks EXCEPT ![i].pc = "done"]
    /\ UNCHANGED <<reqs, size, include_content, exception_handler,
                   success_handler, mapPc, threads, mapResult, handleVars,
                   builderVars, otherVars>>

\* ------------------------------------------------------------------------
\* the handlers, each on its own thread: they return, raise, or run on
\* ------------------------------------------------------------------------
HandlerReturns(t) ==
    /\ t \in 1 .. Len(threads)
    /\ threads[t].state = "running"
    /\ threads' = [threads EXCEPT ![t].state = "returned"]
    /\ UNCHANGED <<reqs, size, include_content, exception_handler,
                   success_handler, mapPc, sem, tasks, mapResult, handleVars,
                   builderVars, otherVars>>

HandlerRaises(t) ==
    /\ t \in 1 .. Len(threads)
    /\ threads[t].state = "running"
    /\ threads' = [threads EXCEPT ![t].state = "raised"]
    /\ UNCHANGED <<reqs, size, include_content, exception_handler,
                   success_handler, mapPc, sem, tasks, mapResult, handleVars,
                   builderVars, otherVars>>

BatchNext ==
    \/ MapSetup
    \/ MapReturn
    \/ \E i \in DOMAIN tasks : Acquire(i)
    \/ \E i \in DOMAIN tasks : RequestOk(i)
    \/ \E i \in DOMAIN tasks : RequestFail(i)
    \/ \E i \in DOMAIN tasks : ReadOk(i)
    \/ \E i \in DOMAIN tasks : ReadFail(i)
    \/ \E i \in DOMAIN tasks : ExitWith(i)
    \/ \E t \in DOMAIN threads : HandlerReturns(t)
    \/ \E t \in DOMAIN threads : HandlerRaises(t)

\* ------------------------------------------------------------------------
\* ThreadExecutor
\* ------------------------------------------------------------------------
\* __init__ (lines 55-57)
NewExecutor == [status |-> "not_started", data |-> None, thread |-> "None"]

\* start() without its guard
start_never_rejects(ex) == FALSE

\* start(), line 65: "if self.status != 'not_started': return False"
start_rejects(ex) == ex.status # "not_started"

\* start() with lines 67 and 68 swapped: the status is written first
start_status_first(ex, self) == [ex EXCEPT !.status = "running"]

\* start(), line 67: self.thread = currentThread()
start_set_thread(ex, self) == [ex EXCEPT !.thread = self]

\* start(), line 68: self.status = "running"
start_set_status(ex) == [ex EXCEPT !.status = "running"]

\* set_data(), line 77
set_data(ex, data) == [ex EXCEPT !.data = data]

\* finished(), line 85: "if self.status != 'running'"
finished_not_running(ex) == ex.status # "running"

\* Thread.is_alive(): the caller's thread lives on; the worker lives until
\* __threaded has returned or died of an exception
is_alive(th) ==
    \/ th = "caller"
    \/ th = "worker" /\ workerPc \notin {"exited", "raised"}

\* finished(), line 89: self.thread = None
finished_clear_thread(ex) == [ex EXCEPT !.thread = "None"]

\* finished() leaving the status at "running"
finished_keep_status(ex) == ex

\* finished(), line 90: self.status = "not_started"
finished_clear_status(ex) == [ex EXCEPT !.status = "not_started"]

\* the dict returned by finished(): lines 86/88 and line 91
Absent == [kind |-> "absent"]
NotPolled == [called |-> FALSE, finished |-> FALSE, raised |-> FALSE,
              data |-> Absent]
NotFinished == [called |-> TRUE, finished |-> FALSE, raised |-> FALSE,
                data |-> Absent]
Finished(ex) == [called |-> TRUE, finished |-> TRUE, raised |-> FALSE,
                 data |-> ex.data]
\* self.thread.is_alive() with self.thread None: AttributeError
PollRaised == [called |-> TRUE, finished |-> FALSE, raised |-> TRUE,
               data |-> Absent]

\* ------------------------------------------------------------------------
\* __threaded(), the worker thread started by map_threaded()
\* ------------------------------------------------------------------------
\* executor.start(), line 65 (the return value is dropped)
WorkerStartCheck ==
    /\ workerPc = "start"
    /\ IF start_rejects(executor)
       THEN workerPc' = "map" /\ UNCHANGED delivered
       ELSE workerPc' = "start_thread" /\ delivered' = 0
    /\ UNCHANGED <<batchVars, builderVars, otherVars,
                   executor, callerPc, callerStarts, startRet,
                   startSeen, pollSeen, pollRet>>

WorkerStartThread ==
    /\ workerPc = "start_thread"
    /\ executor' = start_set_thread(executor, "worker")
    /\ workerPc' = "start_status"
    /\ UNCHANGED <<batchVars, builderVars, otherVars,
                   callerPc, callerStarts, startRet, startSeen, pollSeen,
                   pollRet, delivered>>

WorkerStartStatus ==
    /\ workerPc = "start_status"
    /\ executor' = start_set_status(executor)
    /\ workerPc' = "map"
    /\ UNCHANGED <<batchVars, builderVars, otherVars,
                   callerPc, callerStarts, startRet, startSeen, pollSeen,
                   pollRet, delivered>>

\* resp = map(reqs, size, ...): the call
WorkerCallMap ==
    /\ workerPc = "map"
    /\ mapPc = "idle"
    /\ mapPc' = "called"
    /\ workerPc' = "in_map"
    /\ UNCHANGED <<reqs, size, include_content, exception_handler,
                   success_handler, sem, tasks, threads, mapResult, executor,
                   callerPc, callerStarts, startRet, startSeen, pollSeen, pollRet,
                   delivered, builderVars, otherVars>>

\* map returned: executor.set_data(resp)
WorkerSetData ==
    /\ workerPc = "in_map"
    /\ mapPc = "returned"
    /\ executor' = set_data(executor, mapResult)
    /\ workerPc' = "exiting"
    /\ UNCHANGED <<batchVars, builderVars, otherVars,
                   callerPc, callerStarts, startRet, startSeen, pollSeen,
                   pollRet, delivered>>

\* __threaded returns and the thread ends
WorkerExit ==
    /\ workerPc = "exiting"
    /\ workerPc' = "exited"
    /\ UNCHANGED <<batchVars, builderVars, otherVars,
                   executor, callerPc, callerStarts, startRet,
                   startSeen, pollSeen, pollRet, delivered>>

\* map raised: nothing in __threaded catches it, the thread ends
WorkerDies ==
    /\ workerPc = "in_map"
    /\ mapPc = "raised"
    /\ workerPc' = "raised"
    /\ UNCHANGED <<batchVars, builderVars, otherVars,
                   executor, callerPc, callerStarts, startRet,
                   startSeen, pollSeen, pollRet, delivered>>

\* ------------------------------------------------------------------------
\* the caller, holding the executor returned by map_threaded()
\* ------------------------------------------------------------------------
\* executor.start() called by the caller, line 65
CallerStartCheck ==
    /\ callerPc = "idle"
    /\ callerStarts < MaxCallerStarts
    /\ callerStarts' = callerStarts + 1
    /\ startSeen' = executor
    /\ IF start_rejects(executor)
       THEN /\ startRet' = "False"
            /\ UNCHANGED <<callerPc, delivered>>
       ELSE /\ callerPc' = "start_thread"
            /\ startRet' = "None"
            /\ delivered' = 0
    /\ UNCHANGED <<batchVars, builderVars, otherVars,
                   executor, workerPc, pollSeen, pollRet>>

CallerStartThread ==
    /\ callerPc = "start_thread"
    /\ executor' = start_set_thread(executor, "caller")
    /\ callerPc' = "start_status"
    /\ UNCHANGED <<batchVars, builderVars, otherVars,
                   workerPc, callerStarts, startRet, startSeen, pollSeen,
                   pollRet, delivered>>

CallerStartStatus ==
    /\ callerPc = "start_status"
    /\ executor' = start_set_status(executor)
    /\ startRet' = "True"
    /\ callerPc' = "idle"
    /\ UNCHANGED <<batchVars, builderVars, otherVars,
                   workerPc, callerStarts, startSeen, pollSeen, pollRet,
                   delivered>>

\* executor.finished(), lines 85-86
PollCheck ==
    /\ callerPc = "idle"
    /\ pollSeen' = executor
    /\ IF finished_not_running(executor)
       THEN pollRet' = NotFinished /\ UNCHANGED callerPc
       ELSE callerPc' = "poll_alive" /\ UNCHANGED pollRet
    /\ UNCHANGED <<batchVars, builderVars, otherVars,
                   executor, workerPc, callerStarts, startRet,
                   startSeen, delivered>>

\* lines 87-88
PollAlive ==
    /\ callerPc = "poll_alive"
    /\ IF executor.thread = "None"
       THEN pollRet' = PollRaised /\ callerPc' = "idle"
       ELSE IF is_alive(executor.thread)
            THEN pollRet' = NotFinished /\ callerPc' = "idle"
            ELSE callerPc' = "poll_thread" /\ UNCHANGED pollRet
    /\ UNCHANGED <<batchVars, builderVars, otherVars,
                   executor, workerPc, callerStarts, startRet,
                   startSeen, pollSeen, delivered>>

\* line 89
PollClearThread ==
    /\ callerPc = "poll_thread"
    /\ executor' = finished_clear_thread(executor)
    /\ callerPc' = "poll_status"
    /\ UNCHANGED <<batchVars, builderVars, otherVars,
                   workerPc, callerStarts, startRet, startSeen, pollSeen,
                   pollRet, delivered>>

\* line 90
PollClearStatus ==
    /\ callerPc = "poll_status"
    /\ executor' = finished_clear_status(executor)
    /\ callerPc' = "poll_return"
    /\ UNCHANGED <<batchVars, builderVars, otherVars,
                   workerPc, callerStarts, startRet, startSeen, pollSeen,
                   pollRet, delivered>>

\* line 91
PollReturn ==
    /\ callerPc = "poll_return"
    /\ pollRet' = Finished(executor)
    /\ delivered' = IF delivered < MaxDelivered THEN delivered + 1
                     ELSE delivered
    /\ callerPc' = "idle"
    /\ UNCHANGED <<batchVars, builderVars, otherVars,
                   executor, workerPc, callerStarts, startRet,
                   startSeen, pollSeen>>

\* ------------------------------------------------------------------------
\* request() and the verb builders
\* ------------------------------------------------------------------------
\* Python strings the builder looks into are sequences of characters
Str(chars) == [kind |-> "str", chars |-> chars]

\* a Python list and an (insertion-ordered) dict
List(items) == [kind |-> "list", items |-> items]
Dict(entries) == [kind |-> "dict", entries |-> entries]

LowerCase == <<"a", "b", "c", "d", "e", "f", "g", "h", "i", "j", "k", "l", "m",
               "n", "o", "p", "q", "r", "s", "t", "u", "v", "w", "x", "y", "z">>
UpperCase == <<"A", "B", "C", "D", "E", "F", "G", "H", "I", "J", "K", "L", "M",
               "N", "O", "P", "Q", "R", "S", "T", "U", "V", "W", "X", "Y", "Z">>

\* str.upper()
upper(word) ==
    [k \in DOMAIN word |->
        IF \E n \in DOMAIN LowerCase : LowerCase[n] = word[k]
        THEN UpperCase[CHOOSE n \in DOMAIN LowerCase : LowerCase[n] = word[k]]
        ELSE word[k]]

\* str.startswith()
startswith(word, w) ==
    /\ Len(word) >= Len(w)
    /\ SubSeq(word, 1, Len(w)) = w

\* every word passes
startswith_anything(word, list) == TRUE

\* __startswith(word, _list), lines 144-149
startswith_any(word, list) ==
    \E k \in DOMAIN list : startswith(word, list[k])

\* line 173: ['POST', 'GET', 'PUT', 'HEAD', 'OPTIONS', 'DELETE', 'PATCH']
GET == <<"G", "E", "T">>
HEAD == <<"H", "E", "A", "D">>
OPTIONS == <<"O", "P", "T", "I", "O", "N", "S">>
DELETE == <<"D", "E", "L", "E", "T", "E">>
POST == <<"P", "O", "S", "T">>
PATCH == <<"P", "A", "T", "C", "H">>
PUT == <<"P", "U", "T">>
Verbs == {POST, GET, PUT, HEAD, OPTIONS, DELETE, PATCH}

\* line 178: ['http', 'https', 'socks4', 'socks5']
ProxyPrefixes == <<<<"h", "t", "t", "p">>, <<"h", "t", "t", "p", "s">>,
                   <<"s", "o", "c", "k", "s", "4">>, <<"s", "o", "c", "k", "s", "5">>>>

\* every method gets a Request
method_always_supported(method) == TRUE

\* line 173 negated: method.upper() in [...]
method_supported(method) == upper(method) \in Verbs

\* the append is left out
auto_skip_forgotten(skip_headers, data, json) == skip_headers

\* lines 171-172: skip_headers.append('Content-Type') on the list object
auto_skip(skip_headers, data, json) ==
    IF data = None /\ json = None
    THEN List(Append(skip_headers.items, "Content-Type"))
    ELSE skip_headers

\* the last value of the dict instead of the first
last_value(proxies) == proxies.entries[Len(proxies.entries)].value

\* line 177: list(proxies.values())[0], for a dict that has a value
first_value(proxies) == proxies.entries[1].value

\* ProxyConnector.from_url(proxies): the connector of aiohttp_socks for
\* that url (its own parsing is not part of this repository)
ProxyConnector(url) == [kind |-> "ProxyConnector", url |-> url]

\* Request(method, url, params, data, json, headers, proxies, skip_headers)
RequestObject(method, url, params, data, json, headers, proxies, skip_headers) ==
    [kind |-> "Request", method |-> method, url |-> url, params |-> params,
     data |-> data, json |-> json, headers |-> headers, proxies |-> proxies,
     skip_headers |-> skip_headers]

\* an exception leaving the builder
Raised(error) == [kind |-> "raised", error |-> error]

\* request(), lines 169-182: ret is what the call returns (or raises), skip
\* is the list object named skip_headers as the call leaves it
request(method, url, params, data, json, headers, proxies, skip_headers) ==
    LET fresh == IF skip_headers = None THEN List(<<>>) ELSE skip_headers
        skip == auto_skip(fresh, data, json)
        word == IF proxies.kind = "dict" THEN first_value(proxies)
                ELSE proxies
    IN  IF ~method_supported(method)
        THEN [ret |-> None, skip |-> skip]
        ELSE IF proxies = None
        THEN [ret |-> RequestObject(upper(method), url, params, data, json,
                                    headers, None, skip),
              skip |-> skip]
        ELSE IF proxies.kind = "dict" /\ proxies.entries = <<>>
        THEN [ret |-> Raised("IndexError"), skip |-> skip]
        ELSE IF ~startswith_any(word.chars, ProxyPrefixes)
        THEN [ret |-> RequestObject(upper(method), url, params, data, json,
                                    headers, None, skip),
              skip |-> skip]
        ELSE [ret |-> RequestObject(upper(method), url, params, data, json,
                                    headers, ProxyConnector(word), skip),
              skip |-> skip]

\* get(), head(), options(), delete(): lines 196, 210, 224, 238
get(url, params, headers, proxies) ==
    request(GET, url, params, None, None, headers, proxies, None)
head(url, params, headers, proxies) ==
    request(HEAD, url, params, None, None, headers, proxies, None)
options(url, params, headers, proxies) ==
    request(OPTIONS, url, params, None, None, headers, proxies, None)
delete(url, params, headers, proxies) ==
    request(DELETE, url, params, None, None, headers, proxies, None)

\* post(), patch(), put(): lines 254, 270, 286
post(url, params, data, json, headers, proxies) ==
    request(POST, url, params, data, json, headers, proxies, None)
patch(url, params, data, json, headers, proxies) ==
    request(PATCH, url, params, data, json, headers, proxies, None)
put(url, params, data, json, headers, proxies) ==
    request(PUT, url, params, data, json, headers, proxies, None)

\* ------------------------------------------------------------------------
\* Builder calls
\* ------------------------------------------------------------------------
\* method arguments: GET, POST, get, Patch, FOO, foo and the empty string
MethodInputs == {GET, POST, <<"g", "e", "t">>, <<"P", "a", "t", "c", "h">>,
                 <<"F", "O", "O">>, <<"f", "o", "o">>, <<>>}

\* proxies given as a string: http://p, https://p, socks4://p, socks5://p,
\* ftp://p, the empty string, htt, socks://p, HTTP://p, httpx
ProxyStrings ==
    {Str(<<"h", "t", "t", "p", ":", "/", "/", "p">>),
     Str(<<"h", "t", "t", "p", "s", ":", "/", "/", "p">>),
     Str(<<"s", "o", "c", "k", "s", "4", ":", "/", "/", "p">>),
     Str(<<"s", "o", "c", "k", "s", "5", ":", "/", "/", "p">>),
     Str(<<"f", "t", "p", ":", "/", "/", "p">>),
     Str(<<>>),
     Str(<<"h", "t", "t">>),
     Str(<<"s", "o", "c", "k", "s", ":", "/", "/", "p">>),
     Str(<<"H", "T", "T", "P", ":", "/", "/", "p">>),
     Str(<<"h", "t", "t", "p", "x">>)}

\* proxies given as a dict: up to MaxProxyEntries entries with different
\* keys, the values http://p, socks5://p or ftp://p
ProxyKeys == {"http", "https", "socks5"}
ProxyValues ==
    {Str(<<"h", "t", "t", "p", ":", "/", "/", "p">>),
     Str(<<"s", "o", "c", "k", "s", "5", ":", "/", "/", "p">>),
     Str(<<"f", "t", "p", ":", "/", "/", "p">>)}
ProxyDicts ==
    {Dict(e) : e \in {f \in SeqsUpTo([key : ProxyKeys, value : ProxyValues],
                                     MaxProxyEntries) :
                         \A j, k \in DOMAIN f : j # k => f[j].key # f[k].key}}

DataInputs == {None, Str(<<"d">>)}
JsonInputs == {None, Dict(<<[key |-> "a", value |-> Str(<<"1">>)]>>)}
SkipInputs == {None, List(<<>>), List(<<"User-Agent">>)}

Calls ==
    [method : MethodInputs, url : {"", "u1"}, params : {None},
     data : DataInputs, json : JsonInputs, headers : {None},
     proxies : {None} \cup ProxyStrings \cup ProxyDicts,
     skip_headers : SkipInputs]

NotBuilt == [fn |-> "none", ret |-> None]

NoBuilder ==
    /\ call = None
    /\ callerSkip = None
    /\ built = NotBuilt

\* gh.request(method, url, params, data, json, headers, proxies,
\* skip_headers): the caller's list is the object request() appends to
CallRequest ==
    LET r == request(call.method, call.url, call.params, call.data, call.json,
                     call.headers, call.proxies, call.skip_headers)
    IN  /\ call # None
        /\ built = NotBuilt
        /\ built' = [fn |-> "request", ret |-> r.ret]
        /\ callerSkip' = IF call.skip_headers = None THEN callerSkip
                         ELSE r.skip
        /\ UNCHANGED <<batchVars, handleVars, otherVars, call>>

\* a verb builder called with the arguments it takes; none of them takes
\* skip_headers
VerbCall(fn, r) ==
    /\ call # None
    /\ built = NotBuilt
    /\ built' = [fn |-> fn, ret |-> r.ret]
    /\ UNCHANGED <<batchVars, handleVars, otherVars, call, callerSkip>>

CallGet ==
    VerbCall("get", get(call.url, call.params, call.headers, call.proxies))
CallHead ==
    VerbCall("head", head(call.url, call.params, call.headers, call.proxies))
CallOptions ==
    VerbCall("options",
             options(call.url, call.params, call.headers, call.proxies))
CallDelete ==
    VerbCall("delete",
             delete(call.url, call.params, call.headers, call.proxies))
CallPost ==
    VerbCall("post", post(call.url, call.params, call.data, call.json,
                          call.headers, call.proxies))
CallPatch ==
    VerbCall("patch", patch(call.url, call.params, call.data, call.json,
                            call.headers, call.proxies))
CallPut ==
    VerbCall("put", put(call.url, call.params, call.data, call.json,
                        call.headers, call.proxies))

\* ------------------------------------------------------------------------
\* A second map() call on another thread
\* ------------------------------------------------------------------------
NoOther ==
    [pc |-> "idle", reqs |-> <<>>, size |-> 0, include_content |-> FALSE,
     sem |-> 0, tasks |-> <<>>, result |-> None]

\* map(rs, size=sz, include_content=ic) has just been called on the second
\* thread, without handlers
OtherCall(rs, sz, ic) ==
    [pc |-> "called", reqs |-> rs, size |-> sz, include_content |-> ic,
     sem |-> 0, tasks |-> <<>>, result |-> None]

\* the second call's own filter, own event loop and own Semaphore(size):
\* sem, ssl and sess are locals of its __make_reqs
OtherSetup ==
    /\ other.pc = "called"
    /\ other' = IF other.size < 0
                THEN [other EXCEPT !.pc = "raised"]
                ELSE [other EXCEPT
                        !.pc = "running",
                        !.sem = other.size,
                        !.tasks = [i \in 1 .. Len(FilterValid(other.reqs)) |->
                                      NewTask(FilterValid(other.reqs)[i])]]
    /\ UNCHANGED <<batchVars, handleVars, builderVars>>

OtherReturn ==
    /\ other.pc = "running"
    /\ \A i \in 1 .. Len(other.tasks) : other.tasks[i].pc = "done"
    /\ other' = [other EXCEPT
                   !.pc = "returned",
                   !.result = [kind |-> "list", items |-> Gather(other.tasks)]]
    /\ UNCHANGED <<batchVars, handleVars, builderVars>>

\* one semaphore for the whole module: the second call's request takes its
\* slot from the first call's gate
OtherAcquire_SharedGate(i) ==
    /\ other.pc = "running"
    /\ i \in 1 .. Len(other.tasks)
    /\ other.tasks[i].pc = "acquire"
    /\ mapPc = "running"
    /\ sem > 0
    /\ sem' = sem - 1
    /\ other' = [other EXCEPT !.tasks[i].pc = "request"]
    /\ UNCHANGED <<reqs, size, include_content, exception_handler,
                   success_handler, mapPc, tasks, threads, mapResult,
                   handleVars, builderVars>>

\* "async with sem" of the second call: a slot of its own semaphore
OtherAcquire(i) ==
    /\ other.pc = "running"
    /\ i \in 1 .. Len(other.tasks)
    /\ other.tasks[i].pc = "acquire"
    /\ other.sem > 0
    /\ other' = [other EXCEPT !.sem = @ - 1, !.tasks[i].pc = "request"]
    /\ UNCHANGED <<batchVars, handleVars, builderVars>>

\* lines 311-318 in the second call (success_handler is None)
OtherSucceed(i, content) ==
    other' = [other EXCEPT
                !.tasks[i].pc = "exit",
                !.tasks[i].outcome = "ok",
                !.tasks[i].result = Response(other.tasks[i].req.url, content)]

\* an exception inside the with of the second call (exception_handler is
\* None): its slot is released, the coroutine returns None
OtherFail(i) ==
    other' = [other EXCEPT
                !.sem = @ + 1,
                !.tasks[i].pc = "done",
                !.tasks[i].outcome = "error",
                !.tasks[i].result = None]

OtherRequestOk(i) ==
    /\ other.pc = "running"
    /\ i \in 1 .. Len(other.tasks)
    /\ other.tasks[i].pc = "request"
    /\ IF other.include_content
       THEN other' = [other EXCEPT !.tasks[i].pc = "read"]
       ELSE OtherSucceed(i, "None")
    /\ UNCHANGED <<batchVars, handleVars, builderVars>>

OtherRequestFail(i) ==
    /\ other.pc = "running"
    /\ i \in 1 .. Len(other.tasks)
    /\ other.tasks[i].pc = "request"
    /\ OtherFail(i)
    /\ UNCHANGED <<batchVars, handleVars, builderVars>>

OtherReadOk(i) ==
    /\ other.pc = "running"
    /\ i \in 1 .. Len(other.tasks)
    /\ other.tasks[i].pc = "read"
    /\ OtherSucceed(i, "bytes")
    /\ UNCHANGED <<batchVars, handleVars, builderVars>>

OtherReadFail(i) ==
    /\ other.pc = "running"
    /\ i \in 1 .. Len(other.tasks)
    /\ other.tasks[i].pc = "read"
    /\ OtherFail(i)
    /\ UNCHANGED <<batchVars, handleVars, builderVars>>

\* "return final" leaves the with of the second call
OtherExitWith(i) ==
    /\ other.pc = "running"
    /\ i \in 1 .. Len(other.tasks)
    /\ other.tasks[i].pc = "exit"
    /\ other' = [other EXCEPT !.sem = @ + 1, !.tasks[i].pc = "done"]
    /\ UNCHANGED <<batchVars, handleVars, builderVars>>

\* ------------------------------------------------------------------------
\* Direct use: the caller has called map(reqs, size, ...)
\* ------------------------------------------------------------------------
InitHandle ==
    /\ executor = NewExecutor
    /\ callerPc = "idle"
    /\ callerStarts = 0
    /\ startRet = "None"
    /\ startSeen = NewExecutor
    /\ pollSeen = NewExecutor
    /\ pollRet = NotPolled
    /\ delivered = 0

InitBatch(n) ==
    /\ reqs \in SeqsUpTo(Descriptors, n)
    /\ size \in Sizes
    /\ include_content \in BOOLEAN
    /\ exception_handler \in BOOLEAN
    /\ success_handler \in BOOLEAN
    /\ sem = 0
    /\ tasks = <<>>
    /\ threads = <<>>
    /\ mapResult = None

Init ==
    /\ InitBatch(MaxReqs)
    /\ mapPc = "called"
    /\ workerPc = "none"
    /\ InitHandle
    /\ NoBuilder
    /\ other = NoOther

Next == BatchNext

Spec == Init /\ [][Next]_vars

\* the event loop runs every coroutine that can run, and the transport
\* ends every exchange and every body read it was given, well or badly;
\* nothing is assumed about the handlers' threads
Fairness ==
    /\ WF_vars(MapSetup)
    /\ WF_vars(MapReturn)
    /\ WF_vars(\E i \in DOMAIN tasks : Acquire(i))
    /\ \A i \in 1 .. MaxReqs :
         /\ WF_vars(RequestOk(i) \/ RequestFail(i))
         /\ WF_vars(ReadOk(i) \/ ReadFail(i))
         /\ WF_vars(ExitWith(i))

SpecFair == Init /\ [][Next]_vars /\ Fairness

\* ------------------------------------------------------------------------
\* Threaded use: map_threaded(reqs, size, ...) has returned the executor,
\* the worker thread is started and has not run yet
\* ------------------------------------------------------------------------
InitThreaded ==
    /\ InitBatch(MaxThreadedReqs)
    /\ mapPc = "idle"
    /\ workerPc = "start"
    /\ InitHandle
    /\ NoBuilder
    /\ other = NoOther

NextThreaded ==
    \/ BatchNext
    \/ WorkerStartCheck
    \/ WorkerStartThread
    \/ WorkerStartStatus
    \/ WorkerCallMap
    \/ WorkerSetData
    \/ WorkerExit
    \/ WorkerDies
    \/ CallerStartCheck
    \/ CallerStartThread
    \/ CallerStartStatus
    \/ PollCheck
    \/ PollAlive
    \/ PollClearThread
    \/ PollClearStatus
    \/ PollReturn

SpecThreaded == InitThreaded /\ [][NextThreaded]_vars

\* ------------------------------------------------------------------------
\* Threaded use by a caller that only polls: it calls finished() again and
\* again and never start(). The worker thread gets to run, the event loop
\* and the transport are as in SpecFair, every finished() call the caller
\* has begun runs to its return; nothing is assumed about the handlers
\* ------------------------------------------------------------------------
NextPolling ==
    \/ BatchNext
    \/ WorkerStartCheck
    \/ WorkerStartThread
    \/ WorkerStartStatus
    \/ WorkerCallMap
    \/ WorkerSetData
    \/ WorkerExit
    \/ WorkerDies
    \/ PollCheck
    \/ PollAlive
    \/ PollClearThread
    \/ PollClearStatus
    \/ PollReturn

FairnessPolling ==
    /\ Fairness
    /\ WF_vars(WorkerStartCheck)
    /\ WF_vars(WorkerStartThread)
    /\ WF_vars(WorkerStartStatus)
    /\ WF_vars(WorkerCallMap)
    /\ WF_vars(WorkerSetData)
    /\ WF_vars(WorkerExit)
    /\ WF_vars(WorkerDies)
    /\ WF_vars(PollCheck)
    /\ WF_vars(PollAlive)
    /\ WF_vars(PollClearThread)
    /\ WF_vars(PollClearStatus)
    /\ WF_vars(PollReturn)

SpecPolling == InitThreaded /\ [][NextPolling]_vars /\ FairnessPolling

\* ------------------------------------------------------------------------
\* Two threads have each called map() without handlers, the first with
\* requests to u1 and the second with requests to v1
\* ------------------------------------------------------------------------
TwoSizes == 1 .. MaxTwoSize

InitTwo ==
    /\ reqs \in SeqsUpTo({Request("u1")}, MaxTwoReqs)
    /\ size \in TwoSizes
    /\ include_content \in BOOLEAN
    /\ exception_handler = FALSE
    /\ success_handler = FALSE
    /\ mapPc = "called"
    /\ sem = 0
    /\ tasks = <<>>
    /\ threads = <<>>
    /\ mapResult = None
    /\ workerPc = "none"
    /\ InitHandle
    /\ NoBuilder
    /\ other \in {OtherCall(rs, sz, ic) :
                     rs \in SeqsUpTo({Request("v1")}, MaxTwoReqs),
                     sz \in TwoSizes, ic \in BOOLEAN}

NextTwo ==
    \/ MapSetup
    \/ MapReturn
    \/ \E i \in DOMAIN tasks : Acquire(i)
    \/ \E i \in DOMAIN tasks : RequestOk(i)
    \/ \E i \in DOMAIN tasks : RequestFail(i)
    \/ \E i \in DOMAIN tasks : ReadOk(i)
    \/ \E i \in DOMAIN tasks : ReadFail(i)
    \/ \E i \in DOMAIN tasks : ExitWith(i)
    \/ OtherSetup
    \/ OtherReturn
    \/ \E i \in DOMAIN other.tasks : OtherAcquire(i)
    \/ \E i \in DOMAIN other.tasks : OtherRequestOk(i)
    \/ \E i \in DOMAIN other.tasks : OtherRequestFail(i)
    \/ \E i \in DOMAIN other.tasks : OtherReadOk(i)
    \/ \E i \in DOMAIN other.tasks : OtherReadFail(i)
    \/ \E i \in DOMAIN other.tasks : OtherExitWith(i)

SpecTwo == InitTwo /\ [][NextTwo]_vars

\* ------------------------------------------------------------------------
\* Building one descriptor: a builder is about to be called with arguments
\* of the caller's choice; no batch is running
\* ------------------------------------------------------------------------
NoBatch ==
    /\ reqs = <<>>
    /\ size = 0
    /\ include_content = FALSE
    /\ exception_handler = FALSE
    /\ success_handler = FALSE
    /\ mapPc = "idle"
    /\ sem = 0
    /\ tasks = <<>>
    /\ threads = <<>>
    /\ mapResult = None
    /\ workerPc = "none"

InitBuilder ==
    /\ call \in Calls
    /\ callerSkip = call.skip_headers
    /\ built = NotBuilt
    /\ NoBatch
    /\ InitHandle
    /\ other = NoOther

NextBuilder ==
    \/ CallRequest
    \/ CallGet
    \/ CallHead
    \/ CallOptions
    \/ CallDelete
    \/ CallPost
    \/ CallPatch
    \/ CallPut

SpecBuilder == InitBuilder /\ [][NextBuilder]_vars

\* ------------------------------------------------------------------------
\* Properties of map() (checked under Spec)
\* ------------------------------------------------------------------------

\* C1: when map returns, its result has exactly one entry per input
\* descriptor that is not None and has a non-empty url, and the i-th entry
\* is the outcome of the i-th such descriptor in submission order: the
\* Response carrying that descriptor's url if its exchange succeeded, None
\* if it failed, whatever order the exchanges completed in.
C1_ResultsFollowSubmissionOrder ==
    mapPc = "returned" =>
        LET kept == {p \in DOMAIN reqs : reqs[p] # None /\ reqs[p].url # ""}
            items == mapResult.items
            pos(i) == CHOOSE p \in kept :
                          Cardinality({q \in kept : q <= p}) = i
        IN  /\ Len(items) = Cardinality(kept)
            /\ \A i \in 1 .. Len(items) :
                 /\ tasks[i].req = reqs[pos(i)]
                 /\ tasks[i].outcome \in {"ok", "error"}
                 /\ items[i] =
                      IF tasks[i].outcome = "ok"
                      THEN Response(reqs[pos(i)].url,
                                    IF include_content THEN "bytes"
                                    ELSE "None")
                      ELSE None

\* two requests to different urls, the second completed first and failed,
\* the first succeeded afterwards; map has returned
C1_Witness ==
    /\ mapPc = "returned"
    /\ Len(reqs) = 2
    /\ Len(mapResult.items) = 2
    /\ Len(threads) = 2
    /\ threads[1].req = 2
    /\ threads[2].req = 1
    /\ mapResult.items[1].kind = "Response"
    /\ mapResult.items[1].url = reqs[1].url
    /\ mapResult.items[2] = None
    /\ reqs[1].url # reqs[2].url

\* C2: while a batch with concurrency size K runs, the requests holding a
\* slot of the gate (call issued, with not yet left) number at most K; all
\* other unfinished requests wait at the gate, and the free slots are
\* K minus the holders.
C2_AtMostSizeInFlight ==
    mapPc \in {"running", "returned"} =>
        LET inFlight == {i \in DOMAIN tasks :
                            tasks[i].pc \in {"request", "read", "exit"}}
        IN  /\ Cardinality(inFlight) <= size
            /\ sem = size - Cardinality(inFlight)
            /\ \A i \in DOMAIN tasks \ inFlight :
                 tasks[i].pc \in {"acquire", "done"}

\* more requests than slots: every slot is taken and a request waits
C2_Witness ==
    /\ mapPc = "running"
    /\ size >= 1
    /\ Len(tasks) > size
    /\ Cardinality({i \in DOMAIN tasks :
                       tasks[i].pc \in {"request", "read", "exit"}}) = size
    /\ \E i \in DOMAIN tasks : tasks[i].pc = "acquire"

\* C3: a failing network call never makes map raise (map raises only when
\* its own setup fails), and in the returned result the entry of a failed
\* request is None while every other entry is the Response of its own
\* request, as if nothing had failed.
C3_FailureGivesNoneEntry ==
    /\ mapPc = "raised" => size < 0 /\ tasks = <<>>
    /\ mapPc = "returned" =>
         /\ Len(mapResult.items) = Len(tasks)
         /\ \A i \in DOMAIN tasks :
              IF tasks[i].outcome = "error"
              THEN mapResult.items[i] = None
              ELSE mapResult.items[i] =
                     Response(tasks[i].req.url,
                              IF include_content THEN "bytes" ELSE "None")

\* a batch of two has returned: one request failed, the other succeeded
C3_Witness ==
    /\ mapPc = "returned"
    /\ Len(tasks) = 2
    /\ tasks[1].outcome = "error"
    /\ tasks[2].outcome = "ok"
    /\ mapResult.items[1] = None
    /\ mapResult.items[2].kind = "Response"

\* C4: over the whole run at most one handler thread is started for a
\* request: the success handler's for a request that succeeded, the
\* exception handler's for one that failed, never both.
C4_AtMostOneNotification ==
    \A i \in DOMAIN tasks :
        LET mine == {t \in DOMAIN threads : threads[t].req = i}
        IN  /\ Cardinality(mine) <= 1
            /\ \A t \in mine :
                 /\ threads[t].kind = "success" => tasks[i].outcome = "ok"
                 /\ threads[t].kind = "failure" => tasks[i].outcome = "error"

\* both handlers given, every request is through: one succeeded and has
\* its success thread, one failed and has its failure thread
C4_Witness ==
    /\ success_handler
    /\ exception_handler
    /\ mapPc = "returned"
    /\ Len(tasks) = 2
    /\ tasks[1].outcome = "ok"
    /\ tasks[2].outcome = "error"
    /\ Len(threads) = 2
    /\ \E t \in DOMAIN threads :
         threads[t].req = 1 /\ threads[t].kind = "success"
    /\ \E t \in DOMAIN threads :
         threads[t].req = 2 /\ threads[t].kind = "failure"

\* C5: with an exception handler given, a request has exactly one failure
\* thread, carrying that request's error, if its network call failed, and
\* none otherwise.
C5_FailureNotifiedOnce ==
    exception_handler =>
        \A i \in DOMAIN tasks :
            LET fails == {t \in DOMAIN threads :
                             threads[t].req = i /\ threads[t].kind = "failure"}
            IN  /\ Cardinality(fails) =
                     IF tasks[i].outcome = "error" THEN 1 ELSE 0
                /\ \A t \in fails :
                     threads[t].arg = Error(tasks[i].req.url)

\* a returned batch with exactly one failed request, one None entry and
\* one invocation of the exception handler
C5_Witness ==
    /\ exception_handler
    /\ mapPc = "returned"
    /\ Len(tasks) = 2
    /\ tasks[1].outcome = "ok"
    /\ tasks[2].outcome = "error"
    /\ mapResult.items[1] # None
    /\ mapResult.items[2] = None
    /\ Cardinality({t \in DOMAIN threads : threads[t].kind = "failure"}) = 1

\* C6: the batch never waits for a handler: a request whose success
\* handler was started can leave whatever that handler's thread does, map
\* can return as soon as every request is done, and the Response in the
\* result is the one handed to the handler whether the handler is still
\* running, has returned or has raised.
C6_HandlersNeverBlock ==
    /\ \A i \in DOMAIN tasks :
         (mapPc = "running" /\ tasks[i].pc = "exit") => ENABLED ExitWith(i)
    /\ (mapPc = "running" /\ \A i \in DOMAIN tasks : tasks[i].pc = "done")
          => ENABLED MapReturn
    /\ \A t \in DOMAIN threads :
         /\ threads[t].kind = "success" =>
              tasks[threads[t].req].result = threads[t].arg
         /\ threads[t].kind = "failure" =>
              tasks[threads[t].req].result = None
         /\ mapPc = "returned" =>
              mapResult.items[threads[t].req] = tasks[threads[t].req].result

\* map has returned while one handler is still running and another raised
C6_Witness ==
    /\ mapPc = "returned"
    /\ Len(threads) = 2
    /\ threads[1].state = "running"
    /\ threads[2].state = "raised"
    /\ threads[1].kind = "success"
    /\ mapResult.items[threads[1].req] = threads[1].arg

\* C18: a request that is through, by success or by a failure of the
\* exchange or of the body read, holds no slot: the free slots are always
\* the size minus the requests between acquiring and leaving, and when map
\* has returned all of them are free again.
C18_NoSlotLeaked ==
    /\ mapPc = "running" =>
         sem + Cardinality({i \in DOMAIN tasks : tasks[i].pc # "acquire"
                                                  /\ tasks[i].pc # "done"})
            = size
    /\ mapPc = "returned" => sem = size

\* a batch with body reads on one slot has returned after a failed and a
\* successful request, and the slot is free
C18_Witness ==
    /\ mapPc = "returned"
    /\ include_content
    /\ size = 1
    /\ Len(tasks) = 2
    /\ tasks[1].outcome = "error"
    /\ tasks[2].outcome = "ok"
    /\ sem = 1

\* C19 as stated: whenever a notification has been dispatched, for a success
\* as for a failure, the request's slot was released before the dispatch.
C19_SlotReleasedAtDispatch ==
    \A t \in DOMAIN threads :
        /\ ~threads[t].gate
        /\ tasks[threads[t].req].pc = "done"

\* C19: the failure notification is dispatched after the request's slot has
\* been released; the success notification is dispatched inside the with,
\* while the request still holds its slot, and the slot is released on
\* leaving the with.
C19_SlotHeldAtSuccessDispatchOnly ==
    \A t \in DOMAIN threads :
        /\ threads[t].kind = "failure" =>
              /\ ~threads[t].gate
              /\ tasks[threads[t].req].pc = "done"
        /\ threads[t].kind = "success" =>
              /\ threads[t].gate
              /\ tasks[threads[t].req].pc \in {"exit", "done"}

\* on one slot, the first request has failed and been notified with the slot
\* free; the second holds the slot while its success handler already runs
C19_Witness ==
    /\ size = 1
    /\ sem = 0
    /\ Len(tasks) = 2
    /\ Len(threads) = 2
    /\ threads[1].kind = "failure" /\ threads[1].req = 1 /\ ~threads[1].gate
    /\ threads[2].kind = "success" /\ threads[2].req = 2 /\ threads[2].gate
    /\ threads[2].state = "running"
    /\ tasks[2].pc = "exit"

\* ------------------------------------------------------------------------
\* Properties of two concurrent map() calls (checked under SpecTwo)
\* ------------------------------------------------------------------------
\* the requests of a call that hold a slot of its gate
Holding(ts) == {i \in DOMAIN ts : ts[i].pc \in {"request", "read", "exit"}}

\* C20: of two calls running at the same time, each has its own gate: the
\* free slots of a call are its size minus its own requests in flight, so
\* its in-flight count is bounded by its own size whatever the other does;
\* a waiting request whose own call has a free slot can take it whatever
\* the other call holds; and each call's result has one entry per own
\* request, each None or the response of that request's URL.
C20_BatchesIndependent ==
    /\ mapPc = "running" =>
          /\ Cardinality(Holding(tasks)) <= size
          /\ sem = size - Cardinality(Holding(tasks))
          /\ \A i \in DOMAIN tasks :
                (tasks[i].pc = "acquire"
                    /\ Cardinality(Holding(tasks)) < size)
                => ENABLED Acquire(i)
    /\ other.pc = "running" =>
          /\ Cardinality(Holding(other.tasks)) <= other.size
          /\ other.sem = other.size - Cardinality(Holding(other.tasks))
          /\ \A i \in DOMAIN other.tasks :
                (other.tasks[i].pc = "acquire"
                    /\ Cardinality(Holding(other.tasks)) < other.size)
                => ENABLED OtherAcquire(i)
    /\ mapPc = "returned" =>
          /\ Len(mapResult.items) = Len(reqs)
          /\ \A k \in DOMAIN mapResult.items :
                \/ mapResult.items[k] = None
                \/ /\ mapResult.items[k].kind = "Response"
                   /\ mapResult.items[k].url = reqs[k].url
    /\ other.pc = "returned" =>
          /\ Len(other.result.items) = Len(other.reqs)
          /\ \A k \in DOMAIN other.result.items :
                \/ other.result.items[k] = None
                \/ /\ other.result.items[k].kind = "Response"
                   /\ other.result.items[k].url = other.reqs[k].url

\* both calls run: the second holds every slot of its gate and has a
\* request waiting there, and the first has a request in flight on its own
\* slot and none waiting
C20_Witness ==
    /\ mapPc = "running"
    /\ other.pc = "running"
    /\ other.sem = 0
    /\ \E j \in DOMAIN other.tasks : other.tasks[j].pc = "acquire"
    /\ Len(tasks) = 2
    /\ tasks[1].pc = "done"
    /\ tasks[2].pc = "read"

\* ------------------------------------------------------------------------
\* Properties of the ThreadExecutor (checked under SpecThreaded)
\* ------------------------------------------------------------------------

\* C7: after the threaded batch has completed, the poll that finds the
\* executor running and the worker gone reports finished with the stored
\* data and leaves the executor idle (status "not_started", no thread), and
\* between two successful starts at most one poll reports finished: every
\* later poll reports not finished.
C7_DeliveredOnce ==
    /\ [](delivered <= 1)
    /\ []((callerPc = "idle" /\ delivered = 1) =>
             /\ executor.status = "not_started"
             /\ executor.thread = "None")
    /\ [][(/\ callerPc = "poll_alive"
           /\ callerPc' # callerPc
           /\ executor.thread = "worker"
           /\ workerPc = "exited") => callerPc' = "poll_thread"]_vars
    /\ [][(callerPc = "poll_thread" /\ callerPc' = "idle") => FALSE]_vars
    /\ [][(callerPc = "poll_return" /\ callerPc' # callerPc) =>
             /\ pollRet' = [called |-> TRUE, finished |-> TRUE,
                            raised |-> FALSE, data |-> executor.data]
             /\ callerPc' = "idle"
             /\ executor'.status = "not_started"
             /\ executor'.thread = "None"
             /\ executor'.data = executor.data]_vars

\* the batch completed, one poll reported finished, and a later poll (no
\* start in between) has reported not finished
C7_Witness ==
    /\ workerPc = "exited"
    /\ callerStarts = 0
    /\ callerPc = "idle"
    /\ delivered = 1
    /\ pollRet.called
    /\ ~pollRet.finished
    /\ executor.status = "not_started"
    /\ executor.data = mapResult

\* C8: a poll reports finished only for an executor that was running and
\* whose worker has ended, and the data it reports is the complete result
\* list that the worker got back from map.
C8_PollReportsRunnerResult ==
    (pollRet.called /\ pollRet.finished) =>
        /\ workerPc \in {"exited", "raised"}
        /\ mapPc = "returned"
        /\ pollRet.data.kind = "list"
        /\ pollRet.data = mapResult

\* C9: start on an executor whose status is "running" returns False and
\* leaves status, thread and data as they are; start returns True, with the
\* status then "running", only when it found the status "not_started".
C9_StartRejectedWhileRunning ==
    /\ [](startRet = "False" => startSeen.status = "running")
    /\ [](startRet = "True" => startSeen.status = "not_started")
    /\ [][(/\ callerPc = "idle"
           /\ callerStarts' = callerStarts + 1
           /\ executor.status = "running") =>
             /\ startRet' = "False"
             /\ callerPc' = "idle"
             /\ executor' = executor]_vars
    /\ [][(callerPc = "start_status" /\ callerPc' # callerPc) =>
             /\ startRet' = "True"
             /\ executor'.status = "running"]_vars

\* the caller's start found the executor running (registered by the
\* worker) and was rejected
C9_Witness ==
    /\ callerPc = "idle"
    /\ startRet = "False"
    /\ startSeen.status = "running"
    /\ startSeen.thread = "worker"
    /\ executor.thread = "worker"

\* C10: when map raises on the worker, the failure is stored on the
\* executor (a status other than "not_started"/"running", or data other
\* than the initial None), and no poll reports such a run as finished.
C10_SetupFailureStored ==
    /\ workerPc = "raised" =>
         \/ executor.status \notin {"not_started", "running"}
         \/ executor.data # None
    /\ (pollRet.called /\ pollRet.finished) => mapPc # "raised"

\* ------------------------------------------------------------------------
\* Properties of the builders (checked under SpecBuilder)
\* ------------------------------------------------------------------------

\* C11 as stated: for every method string that is not literally one of
\* GET, POST, PUT, HEAD, OPTIONS, DELETE, PATCH, request() returns None, and
\* that None gets no position in a batch.
C11_OtherMethodStringGivesNone ==
    (built.fn = "request" /\ call.method \notin Verbs) =>
        /\ built.ret = None
        /\ FilterValid(<<Request("u1"), built.ret, Request("u2")>>) =
              <<Request("u1"), Request("u2")>>

\* C11, amended: request() returns None, without raising, exactly for the
\* method strings whose upper-case form is outside the seven verbs (a
\* lower- or mixed-case spelling of a verb is accepted and stored in upper
\* case), and such a None placed in a batch is dropped by map's filter, so
\* it gets no position among the results.
C11_UnsupportedMethodGivesNone ==
    built.fn = "request" =>
        IF upper(call.method) \in Verbs
        THEN built.ret.kind = "Request" =>
                built.ret.method = upper(call.method)
        ELSE /\ built.ret = None
             /\ FilterValid(<<Request("u1"), built.ret, Request("u2")>>) =
                   <<Request("u1"), Request("u2")>>

\* request("foo", ...) has returned None
C11_Witness ==
    /\ built.fn = "request"
    /\ call.method = <<"f", "o", "o">>
    /\ built.ret = None

\* C12: every Request built without data and without json, by request()
\* or by a verb builder, has "Content-Type" in its skip_headers.
C12_ContentTypeSuppressed ==
    LET noBody == IF built.fn \in {"get", "head", "options", "delete"}
                  THEN TRUE
                  ELSE call.data = None /\ call.json = None
    IN  (built.fn # "none" /\ built.ret.kind = "Request" /\ noBody) =>
            \E k \in DOMAIN built.ret.skip_headers.items :
                built.ret.skip_headers.items[k] = "Content-Type"

\* request() called with the caller's own list ["User-Agent"] and no body
C12_Witness ==
    /\ built.fn = "request"
    /\ call.data = None
    /\ call.json = None
    /\ call.skip_headers = List(<<"User-Agent">>)
    /\ built.ret.kind = "Request"
    /\ built.ret.skip_headers = List(<<"User-Agent", "Content-Type">>)

\* C13: for a proxy string that starts with none of http, https, socks4,
\* socks5 the builder still produces its Request (request() does whenever
\* the method is supported) and the Request's proxies is None.
C13_UnknownProxyDropped ==
    (/\ built.fn # "none"
     /\ call.proxies.kind = "str"
     /\ \A k \in DOMAIN ProxyPrefixes :
           ~startswith(call.proxies.chars, ProxyPrefixes[k])) =>
        IF built.fn = "request" /\ upper(call.method) \notin Verbs
        THEN built.ret = None
        ELSE /\ built.ret.kind = "Request"
             /\ built.ret.proxies = None

\* get(url, proxies="ftp://p") has returned a Request without proxy
C13_Witness ==
    /\ built.fn = "get"
    /\ call.proxies = Str(<<"f", "t", "p", ":", "/", "/", "p">>)
    /\ built.ret.kind = "Request"
    /\ built.ret.proxies = None

\* C14: with a proxies dict of two or more entries, the Request's proxies
\* comes from the first entry's value alone: its connector if that value
\* has a known prefix, None if not, whatever the other entries are.
C14_FirstProxyValueOnly ==
    (/\ built.fn # "none"
     /\ call.proxies.kind = "dict"
     /\ Len(call.proxies.entries) >= 2
     /\ built.ret # None) =>
        LET first == call.proxies.entries[1].value
        IN  /\ built.ret.kind = "Request"
            /\ built.ret.proxies =
                 IF \E k \in DOMAIN ProxyPrefixes :
                        startswith(first.chars, ProxyPrefixes[k])
                 THEN ProxyConnector(first)
                 ELSE None

\* a dict whose first value is socks5://p and whose second is http://p
C14_Witness ==
    /\ built.fn = "post"
    /\ call.proxies.kind = "dict"
    /\ Len(call.proxies.entries) = 2
    /\ call.proxies.entries[1].value = Str(<<"s", "o", "c", "k", "s", "5", ":", "/", "/", "p">>)
    /\ call.proxies.entries[2].value = Str(<<"h", "t", "t", "p", ":", "/", "/", "p">>)
    /\ built.ret.kind = "Request"
    /\ built.ret.proxies = ProxyConnector(Str(<<"s", "o", "c", "k", "s", "5", ":", "/", "/", "p">>))

\* C15: after any builder call, whatever it returned, the list the caller
\* passed as skip_headers is as it was before the call.
C15_CallerListUnchanged ==
    built.fn # "none" => callerSkip = call.skip_headers

\* C16: a builder call never ends in an exception, for any method string
\* and any proxies string or dict.
C16_BuilderNeverRaises ==
    built.fn # "none" => built.ret.kind \in {"None", "Request"}

\* ------------------------------------------------------------------------
\* Progress of map() (checked under SpecFair)
\* ------------------------------------------------------------------------

\* C17: if the transport ends every call, a batch started with size >= 1
\* eventually returns, and when it has returned every request that passed
\* the filter has run to its end, with a Response or with a failure: none
\* is still at the gate, in flight, skipped or cancelled.
C17_BatchRunsToCompletion ==
    /\ (mapPc = "called" /\ size >= 1) ~> (mapPc = "returned")
    /\ [](mapPc = "returned" =>
             /\ Len(tasks) =
                  Cardinality({p \in DOMAIN reqs :
                                  reqs[p] # None /\ reqs[p].url # ""})
             /\ \A i \in DOMAIN tasks :
                  /\ tasks[i].pc = "done"
                  /\ tasks[i].outcome \in {"ok", "error"})

\* more requests than slots, and the batch has returned with all of them
C17_Witness ==
    /\ mapPc = "returned"
    /\ size = 1
    /\ Len(tasks) = 2
    /\ \A i \in DOMAIN tasks : tasks[i].pc = "done"
    /\ tasks[2].outcome = "ok"

\* ------------------------------------------------------------------------
\* Properties of a polled map_threaded() run (checked under SpecPolling)
\* ------------------------------------------------------------------------
\* the worker is inside executor.start(): before line 65, between lines 65
\* and 67, between lines 67 and 68
Registering == {"start", "start_thread", "start_status"}

\* C21: the executor is set running by the worker's own start(), while the
\* caller already holds it. As long as the worker is inside start(), the
\* status is still "not_started", also between the write of the thread and
\* the write of the status, so that every poll made then returns not
\* finished from line 86 and changes nothing on the executor. And once map
\* has returned on the worker, a later poll reports finished with map's
\* result.
C21_RegistrationRaceLosesNothing ==
    /\ [][(executor.status # "running" /\ executor'.status = "running") =>
             /\ workerPc = "start_status"
             /\ workerPc' = "map"
             /\ executor.thread = "worker"]_vars
    /\ [](workerPc \in Registering =>
             /\ executor.status = "not_started"
             /\ callerPc = "idle"
             /\ ~pollRet.finished
             /\ ~pollRet.raised
             /\ delivered = 0)
    /\ [](workerPc = "start_status" => executor.thread = "worker")
    /\ [][(/\ workerPc \in Registering
           /\ workerPc' = workerPc
           /\ (pollRet' # pollRet \/ pollSeen' # pollSeen)) =>
             /\ pollSeen' = executor
             /\ pollRet' = NotFinished
             /\ callerPc' = "idle"
             /\ executor' = executor
             /\ delivered' = delivered]_vars
    /\ (mapPc = "returned") ~> (delivered = 1)
    /\ [][(mapPc = "returned" /\ delivered' = delivered + 1) =>
             /\ pollRet'.finished
             /\ pollRet'.data = mapResult]_vars

\* the caller's last poll found the thread written and the status not yet,
\* reported not finished, and the worker is still between the two writes
C21_Witness ==
    /\ workerPc = "start_status"
    /\ callerPc = "idle"
    /\ pollRet = NotFinished
    /\ pollSeen.thread = "worker"
    /\ pollSeen.status = "not_started"
    /\ executor = pollSeen

====
